---- MODULE Spec2Model ----
(***************************************************************************)
(* Model of the lookout UI preemption mutation                             *)
(* (internal/lookoutui/src/services/lookout/usePreemptJobs.ts):            *)
(* createJobBatches groups a job list by queue and job-set and cuts each   *)
(* group into batches; mutationFn issues one request per batch, then       *)
(* awaits the requests one after the other and aggregates their outcomes.  *)
(***************************************************************************)
EXTENDS Integers, Sequences, FiniteSets, TLC

(* ------------------------------ bounds --------------------------------- *)

\* Longest job list passed to createJobBatches / mutationFn.
MaxJobs == 3

\* Largest batch size tried.  The code's only call passes 10000
\* (maxJobsPerRequest); the model ranges over 1..MaxBatchSize so that a
\* bounded list fills a batch and starts the next one.
MaxBatchSize == 2

(* --------------------------- the job universe -------------------------- *)

\* A job is identified by its ID and belongs to one queue and one job-set.
JobIds == {"j1", "j2", "j3", "j4", "j5"}

QueueOf == [j \in JobIds |-> IF j = "j5" THEN "q2" ELSE "q1"]

\* "s1" exists under both queues: the two groups must stay apart.
JobSetOf == [j \in JobIds |-> IF j = "j4" THEN "s2" ELSE "s1"]

Job(j) == [jobId |-> j, queue |-> QueueOf[j], jobSet |-> JobSetOf[j]]

Reasons == {"", "maintenance"}

BatchSizes == 1..MaxBatchSize

IsDistinct(s) == \A a, b \in DOMAIN s : a # b => s[a] # s[b]

\* Every list of at most MaxJobs jobs, repetitions included.
JobLists ==
  UNION {{[i \in 1..n |-> Job(ids[i])] : ids \in [1..n -> JobIds]} : n \in 0..MaxJobs}

\* The lists the mutation is given: jobs with pairwise distinct IDs.
DistinctJobLists == {js \in JobLists : IsDistinct(js)}

(* ------------------ Map<K, V> in insertion order ----------------------- *)

\* A JavaScript Map is a sequence of [key, value] entries in insertion
\* order; set() on a present key keeps the key's position.
MapHas(m, k) == \E i \in DOMAIN m : m[i].key = k

MapGet(m, k) == m[CHOOSE i \in DOMAIN m : m[i].key = k].value

\* Mutant of MapSet: a new key is put in front of the older keys.
MapSetInFront(m, k, v) ==
  IF MapHas(m, k)
    THEN [i \in DOMAIN m |-> IF m[i].key = k THEN [key |-> k, value |-> v] ELSE m[i]]
    ELSE <<[key |-> k, value |-> v]>> \o m

MapSet(m, k, v) ==
  IF MapHas(m, k)
    THEN [i \in DOMAIN m |-> IF m[i].key = k THEN [key |-> k, value |-> v] ELSE m[i]]
    ELSE Append(m, [key |-> k, value |-> v])

(* --------------------------- createJobBatches -------------------------- *)

\* Mutant of PushJobId: a full last batch is only noticed one job late
\* (">" for "===").
PushJobIdLate(batches, jobId, batchSize) ==
  IF Len(batches) = 0 \/ Len(batches[Len(batches)]) > batchSize
    THEN Append(batches, <<jobId>>)
    ELSE [batches EXCEPT ![Len(batches)] = Append(@, jobId)]

\* Mutant of PushJobId: the last batch counts as full one job early.
PushJobIdEarly(batches, jobId, batchSize) ==
  IF Len(batches) = 0 \/ Len(batches[Len(batches)]) >= batchSize - 1
    THEN Append(batches, <<jobId>>)
    ELSE [batches EXCEPT ![Len(batches)] = Append(@, jobId)]

\* Lines 32-39: open a new batch when there is none or the last one is
\* full, else append to the last batch.
PushJobId(batches, jobId, batchSize) ==
  IF Len(batches) = 0 \/ Len(batches[Len(batches)]) = batchSize
    THEN Append(batches, <<jobId>>)
    ELSE [batches EXCEPT ![Len(batches)] = Append(@, jobId)]

\* Mutant of AddJob: the batches of a job-set are replaced by the job's
\* own batch when the job-set is already known.
AddJobReplacing(result, job, batchSize) ==
  LET r1   == IF ~MapHas(result, job.queue)
                THEN MapSet(result, job.queue, <<>>) ELSE result
      m    == MapGet(r1, job.queue)
  IN  MapSet(r1, job.queue, MapSet(m, job.jobSet, <<<<job.jobId>>>>))

\* Lines 25-39: one iteration of the loop over the jobs.
AddJob(result, job, batchSize) ==
  LET r1   == IF ~MapHas(result, job.queue)
                THEN MapSet(result, job.queue, <<>>) ELSE result
      m    == MapGet(r1, job.queue)
      m1   == IF ~MapHas(m, job.jobSet) THEN MapSet(m, job.jobSet, <<>>) ELSE m
      next == PushJobId(MapGet(m1, job.jobSet), job.jobId, batchSize)
  IN  MapSet(r1, job.queue, MapSet(m1, job.jobSet, next))

RECURSIVE createJobBatches(_, _)

\* Mutant of createJobBatches: the result starts with one group holding
\* one empty batch.
createJobBatchesSeeded(jobList, batchSize) ==
  IF jobList = <<>>
    THEN <<[key |-> "", value |-> <<[key |-> "", value |-> << <<>> >>]>>]>>
    ELSE AddJob(createJobBatches(SubSeq(jobList, 1, Len(jobList) - 1), batchSize),
                jobList[Len(jobList)], batchSize)

\* Lines 22-42.
createJobBatches(jobList, batchSize) ==
  IF jobList = <<>>
    THEN <<>>
    ELSE AddJob(createJobBatches(SubSeq(jobList, 1, Len(jobList) - 1), batchSize),
                jobList[Len(jobList)], batchSize)

(* ------------------------------ mutationFn ----------------------------- *)

RECURSIVE Concat(_)
Concat(ss) == IF ss = <<>> THEN <<>> ELSE Head(ss) \o Concat(Tail(ss))

\* Mutant of RequestBody: the reason is not passed on.
RequestBodyNoReason(queue, jobSet, batch, why) ==
  [jobIds |-> batch, queue |-> queue, jobSetId |-> jobSet, reason |-> ""]

\* Lines 71-74: the body of one request.
RequestBody(queue, jobSet, batch, why) ==
  [jobIds |-> batch, queue |-> queue, jobSetId |-> jobSet, reason |-> why]

\* Lines 65-67: the batches in the order the three nested loops visit them.
BatchList(cs) ==
  Concat([q \in DOMAIN cs |->
    Concat([s \in DOMAIN cs[q].value |->
      [b \in DOMAIN cs[q].value[s].value |->
        [queue  |-> cs[q].key,
         jobSet |-> cs[q].value[s].key,
         batch  |-> cs[q].value[s].value[b]]]])])

\* Errors a request can be rejected with.  "eMalformed" is one that
\* getErrorMessage cannot convert; "eConversion" is what the failed
\* conversion throws.
RequestErrors == {"e1", "e2", "eMalformed"}

getErrorMessageFails(e) == e = "eMalformed"

getErrorMessage(e) ==
  CASE e = "e1"          -> "500 Internal Server Error"
    [] e = "e2"          -> "403 Forbidden"
    [] e = "eConversion" -> "Cannot read properties of undefined"
    [] OTHER             -> "Unknown error"

\* Lines 90-93: one failed entry per job ID of the batch.
FailedEntries(jobIds, text) ==
  [i \in DOMAIN jobIds |-> [jobId |-> jobIds[i], errorReason |-> text]]

\* Mutant of PushSuccessful: assignment in place of push.
PushSuccessfulAssign(successfulJobIds, jobIds) == jobIds

\* Line 87.
PushSuccessful(successfulJobIds, jobIds) == successfulJobIds \o jobIds

\* Mutant of PushFailed: concat() in place of push(), the result dropped.
PushFailedDropped(failedJobIds, entries) == failedJobIds

\* Line 94.
PushFailed(failedJobIds, entries) == failedJobIds \o entries

\* Mutant of AwaitedIndex: the loop takes a later promise that has
\* settled while the one it stands on is still pending.
AwaitedIndexRace(promises, i) ==
  IF promises[i].state = "pending"
     /\ \E k \in DOMAIN promises : k > i /\ promises[k].state # "pending"
    THEN CHOOSE k \in DOMAIN promises :
           /\ k > i /\ promises[k].state # "pending"
           /\ \A l \in DOMAIN promises :
                l > i /\ promises[l].state # "pending" => k <= l
    ELSE i

\* Lines 83-85: the promise the idx-th iteration of the loop waits for.
AwaitedIndex(promises, i) == i

\* Mutant of CaughtError: the error of the first rejected request.
CaughtErrorOfFirst(promises, i) ==
  promises[CHOOSE k \in DOMAIN promises :
             /\ promises[k].state = "rejected"
             /\ \A l \in DOMAIN promises : promises[l].state = "rejected" => k <= l].error

\* Line 88: the error the catch clause binds for the awaited promise.
CaughtError(promises, i) == promises[i].error

EmptyResponse == [successfulJobIds |-> <<>>, failedJobIds |-> <<>>]

NoResult == [kind |-> "none", response |-> EmptyResponse, error |-> ""]

VARIABLES
  fakeDataEnabled,      \* config.fakeDataEnabled
  maxJobsPerRequest,    \* line 61
  pc,                   \* where mutationFn stands
  jobs, reason,         \* the variables of the call
  chunks,               \* line 62
  requests,             \* the bodies passed to submitApi.preemptJobs, in order
  apiResponsePromises,  \* line 64: [jobIds, state, error]
  idx,                  \* position of the loop of line 83
  caught,               \* the error bound by the catch clause being run
  response,             \* line 59
  result,               \* how the promise of mutationFn settled
  outOfOrder,           \* some request was answered before an earlier one
  \* PreemptionDialog
  backendTerminated,    \* the selected jobs that are terminated on the server
  selectedJobs,         \* data of useGetAllJobsMatchingFilters, last fetch
  fetching,             \* a fetch of the selected jobs is under way
  isLoadingJobs,        \* isLoading of useGetAllJobsMatchingFilters
  dialogReason,         \* useState reason
  isPreempting,         \* useState isPreempting
  hasAttemptedPreempt,  \* useState hasAttemptedPreempt
  refetchAfterPreempt,  \* useState refetchAfterPreempt
  waitPending,          \* doRefetch stands at await waitMs(500)
  jobIdsToPreemptResponses, \* useState jobIdsToPreemptResponses
  owed                  \* finished preemptions minus automatic refetches

dialogVars == <<backendTerminated, selectedJobs, fetching, isLoadingJobs,
                dialogReason, isPreempting, hasAttemptedPreempt,
                refetchAfterPreempt, waitPending, jobIdsToPreemptResponses, owed>>

vars == <<fakeDataEnabled, maxJobsPerRequest, pc, jobs, reason, chunks, requests,
          apiResponsePromises, idx, caught, response, result,
          outOfOrder, dialogVars>>

callVars == <<jobs, reason, chunks, requests>>

loopVars == <<callVars, outOfOrder>>

(* --------------------------- PreemptionDialog -------------------------- *)

\* The jobs that match the dialog's filters, in the order the fetch
\* returns them.
SelectedJobIds == <<"j1", "j5">>

SelectedJobIdSet == {SelectedJobIds[i] : i \in DOMAIN SelectedJobIds}

\* isTerminatedJobState of lookoutModels.
isTerminatedJobState(state) == state \in {"SUCCEEDED", "FAILED", "CANCELLED", "PREEMPTED"}

\* What a fetch returns when the jobs of `terminated` are terminated.
FetchedJobs(terminated) ==
  [i \in DOMAIN SelectedJobIds |->
    [jobId  |-> SelectedJobIds[i],
     queue  |-> QueueOf[SelectedJobIds[i]],
     jobSet |-> JobSetOf[SelectedJobIds[i]],
     state  |-> IF SelectedJobIds[i] \in terminated THEN "SUCCEEDED" ELSE "RUNNING"]]

IsPreemptable(job) == ~isTerminatedJobState(job.state)

\* Mutant of PreemptableJobs: the terminated jobs are not filtered out.
PreemptableJobsUnfiltered(selected) == selected

\* Lines 57-60 of the dialog.
PreemptableJobs(selected) == SelectSeq(selected, IsPreemptable)

\* The fields of a job that the mutation reads.
AsMutationJobs(js) ==
  [i \in DOMAIN js |-> [jobId |-> js[i].jobId, queue |-> js[i].queue, jobSet |-> js[i].jobSet]]

NoResponses == [j \in SelectedJobIdSet |-> ""]

\* Lines 83-85 of the dialog: the statuses after a response.
NewResponseStatus(old, resp) ==
  [j \in SelectedJobIdSet |->
    IF \E k \in DOMAIN resp.failedJobIds : resp.failedJobIds[k].jobId = j
      THEN resp.failedJobIds[CHOOSE k \in DOMAIN resp.failedJobIds :
             /\ resp.failedJobIds[k].jobId = j
             /\ \A l \in DOMAIN resp.failedJobIds :
                  resp.failedJobIds[l].jobId = j => l <= k].errorReason
      ELSE IF \E k \in DOMAIN resp.successfulJobIds : resp.successfulJobIds[k] = j
        THEN "Success"
        ELSE old[j]]

\* Lines 197-213 of the dialog: the buttons that can be pressed.
RefetchEnabled == ~(isLoadingJobs \/ isPreempting)

PreemptEnabled ==
  /\ ~isPreempting
  /\ ~(isLoadingJobs \/ hasAttemptedPreempt \/ Len(PreemptableJobs(selectedJobs)) = 0)

\* The mutation before it is called.
MutationIdle ==
  /\ pc = "idle"
  /\ jobs = <<>>
  /\ reason = ""
  /\ chunks = <<>>
  /\ requests = <<>>
  /\ apiResponsePromises = <<>>
  /\ idx = 1
  /\ caught = ""
  /\ response = EmptyResponse
  /\ result = NoResult
  /\ outOfOrder = FALSE

\* Lines 35-39 and 46-55 of the dialog: the state at mount, the first fetch
\* under way.
DialogMounted ==
  /\ selectedJobs = <<>>
  /\ fetching = TRUE
  /\ isLoadingJobs = TRUE
  /\ dialogReason = ""
  /\ isPreempting = FALSE
  /\ hasAttemptedPreempt = FALSE
  /\ refetchAfterPreempt = FALSE
  /\ waitPending = FALSE
  /\ jobIdsToPreemptResponses = NoResponses
  /\ owed = 0

\* The hook used on its own: no dialog event occurs.
Init ==
  /\ fakeDataEnabled \in BOOLEAN
  /\ maxJobsPerRequest \in BatchSizes
  /\ MutationIdle
  /\ backendTerminated = {}
  /\ DialogMounted

\* Mutant of CallFake: the requests are issued before the fake-data flag
\* is looked at.
CallFakeIssuing ==
  /\ pc = "idle"
  /\ fakeDataEnabled
  /\ \E js \in DistinctJobLists, why \in Reasons :
       LET bl == BatchList(createJobBatches(js, maxJobsPerRequest))
       IN  /\ jobs' = js
           /\ reason' = why
           /\ requests' = [i \in DOMAIN bl |->
                            RequestBody(bl[i].queue, bl[i].jobSet, bl[i].batch, why)]
  /\ pc' = "fake_wait"
  /\ UNCHANGED <<dialogVars, fakeDataEnabled, maxJobsPerRequest, chunks,
                 apiResponsePromises, idx, caught, response, result,
                 outOfOrder>>

\* Lines 49-51: fake data, wait one second.
CallFake ==
  /\ pc = "idle"
  /\ fakeDataEnabled
  /\ \E js \in DistinctJobLists, why \in Reasons :
       /\ jobs' = js
       /\ reason' = why
  /\ pc' = "fake_wait"
  /\ UNCHANGED <<dialogVars, fakeDataEnabled, maxJobsPerRequest, chunks, requests,
                 apiResponsePromises, idx, caught, response, result,
                 outOfOrder>>

\* Lines 52-55.
FakeReturn ==
  /\ pc = "fake_wait"
  /\ result' = [kind |-> "response",
                response |-> [successfulJobIds |-> [i \in DOMAIN jobs |-> jobs[i].jobId],
                              failedJobIds |-> <<>>],
                error |-> ""]
  /\ pc' = "returned"
  /\ UNCHANGED <<dialogVars, fakeDataEnabled, maxJobsPerRequest, loopVars,
                 apiResponsePromises, idx, caught, response>>

\* Mutant of CallReal: only the first request is issued before the first
\* await (the later ones would follow one by one).
CallRealFirstOnly ==
  /\ pc = "idle"
  /\ ~fakeDataEnabled
  /\ \E js \in DistinctJobLists, why \in Reasons :
       LET cs == createJobBatches(js, maxJobsPerRequest)
           bl == BatchList(cs)
           n  == IF Len(bl) = 0 THEN 0 ELSE 1
       IN  /\ jobs' = js
           /\ reason' = why
           /\ chunks' = cs
           /\ requests' = [i \in 1..n |->
                            RequestBody(bl[i].queue, bl[i].jobSet, bl[i].batch, why)]
           /\ apiResponsePromises' = [i \in 1..n |->
                            [jobIds |-> bl[i].batch, state |-> "pending", error |-> ""]]
  /\ response' = EmptyResponse
  /\ idx' = 1
  /\ pc' = "collect"
  /\ UNCHANGED <<dialogVars, fakeDataEnabled, maxJobsPerRequest, caught, result,
                 outOfOrder>>

\* Lines 58-81, one synchronous block: batch the jobs and issue every
\* request; the first await of line 85 follows.
CallReal ==
  /\ pc = "idle"
  /\ ~fakeDataEnabled
  /\ \E js \in DistinctJobLists, why \in Reasons :
       LET cs == createJobBatches(js, maxJobsPerRequest)
           bl == BatchList(cs)
       IN  /\ jobs' = js
           /\ reason' = why
           /\ chunks' = cs
           /\ requests' = [i \in DOMAIN bl |->
                            RequestBody(bl[i].queue, bl[i].jobSet, bl[i].batch, why)]
           /\ apiResponsePromises' = [i \in DOMAIN bl |->
                            [jobIds |-> bl[i].batch, state |-> "pending", error |-> ""]]
  /\ response' = EmptyResponse
  /\ idx' = 1
  /\ pc' = "collect"
  /\ UNCHANGED <<dialogVars, fakeDataEnabled, maxJobsPerRequest, caught, result,
                 outOfOrder>>

\* The backend answers request i: its promise is fulfilled or rejected.
\* Answers arrive in any order, whatever the loop is waiting for.
Settle(i) ==
  /\ i \in DOMAIN apiResponsePromises
  /\ apiResponsePromises[i].state = "pending"
  /\ \/ apiResponsePromises' = [apiResponsePromises EXCEPT ![i].state = "fulfilled"]
     \/ \E e \in RequestErrors :
          apiResponsePromises' =
            [apiResponsePromises EXCEPT ![i].state = "rejected", ![i].error = e]
  /\ outOfOrder' = (outOfOrder \/ \E k \in 1..(i - 1) :
                                    apiResponsePromises[k].state = "pending")
  /\ UNCHANGED <<dialogVars, fakeDataEnabled, maxJobsPerRequest, pc, callVars, idx, caught,
                 response, result>>

\* Lines 85-87: the awaited promise is fulfilled.
AwaitFulfilled ==
  /\ pc = "collect"
  /\ idx <= Len(apiResponsePromises)
  /\ LET p == apiResponsePromises[AwaitedIndex(apiResponsePromises, idx)]
     IN  /\ p.state = "fulfilled"
         /\ response' = [response EXCEPT
              !.successfulJobIds = PushSuccessful(@, p.jobIds)]
  /\ idx' = idx + 1
  /\ UNCHANGED <<dialogVars, fakeDataEnabled, maxJobsPerRequest, pc, loopVars,
                 apiResponsePromises, caught, result>>

\* Mutant of AwaitRejected: no inner try/catch, the rejection goes
\* straight to the catch clause of line 99.
AwaitRejectedRethrow ==
  /\ pc = "collect"
  /\ idx <= Len(apiResponsePromises)
  /\ LET p == apiResponsePromises[AwaitedIndex(apiResponsePromises, idx)]
     IN  /\ p.state = "rejected"
         /\ caught' = p.error
  /\ pc' = "toplevel"
  /\ UNCHANGED <<dialogVars, fakeDataEnabled, maxJobsPerRequest, loopVars,
                 apiResponsePromises, idx, response, result>>

\* Lines 85, 88-89: the awaited promise is rejected; the catch clause
\* starts converting the error.
AwaitRejected ==
  /\ pc = "collect"
  /\ idx <= Len(apiResponsePromises)
  /\ LET p == apiResponsePromises[AwaitedIndex(apiResponsePromises, idx)]
     IN  /\ p.state = "rejected"
         /\ caught' = CaughtError(apiResponsePromises,
                                   AwaitedIndex(apiResponsePromises, idx))
  /\ pc' = "convert"
  /\ UNCHANGED <<dialogVars, fakeDataEnabled, maxJobsPerRequest, loopVars,
                 apiResponsePromises, idx, response, result>>

\* Lines 89-95: getErrorMessage settles.  On a message the batch's job IDs
\* are pushed as failed; a failed conversion leaves the inner catch clause
\* and is caught at line 99.
ConvertDone ==
  /\ pc = "convert"
  /\ IF getErrorMessageFails(caught)
       THEN /\ caught' = "eConversion"
            /\ pc' = "toplevel"
            /\ UNCHANGED <<idx, response>>
       ELSE /\ response' = [response EXCEPT
                 !.failedJobIds = PushFailed(@,
                   FailedEntries(
                     apiResponsePromises[AwaitedIndex(apiResponsePromises, idx)].jobIds,
                     getErrorMessage(caught)))]
            /\ idx' = idx + 1
            /\ pc' = "collect"
            /\ UNCHANGED caught
  /\ UNCHANGED <<dialogVars, fakeDataEnabled, maxJobsPerRequest, loopVars,
                 apiResponsePromises, result>>

\* Line 98.
Return ==
  /\ pc = "collect"
  /\ idx > Len(apiResponsePromises)
  /\ result' = [kind |-> "response", response |-> response, error |-> ""]
  /\ pc' = "returned"
  /\ UNCHANGED <<dialogVars, fakeDataEnabled, maxJobsPerRequest, loopVars,
                 apiResponsePromises, idx, caught, response>>

\* Mutant of TopLevel: the outer catch clause swallows the error and
\* returns what was collected so far.
TopLevelSwallow ==
  /\ pc = "toplevel"
  /\ result' = [kind |-> "response", response |-> response, error |-> ""]
  /\ pc' = "returned"
  /\ UNCHANGED <<dialogVars, fakeDataEnabled, maxJobsPerRequest, loopVars,
                 apiResponsePromises, idx, caught, response>>

\* Lines 99-100: the outer catch clause throws the message of the error,
\* or the error of the conversion when that fails too.
TopLevel ==
  /\ pc = "toplevel"
  /\ result' = [kind |-> "error", response |-> EmptyResponse,
                error |-> IF getErrorMessageFails(caught)
                            THEN "eConversion" ELSE getErrorMessage(caught)]
  /\ pc' = "rejected"
  /\ UNCHANGED <<dialogVars, fakeDataEnabled, maxJobsPerRequest, loopVars,
                 apiResponsePromises, idx, caught, response>>

Next ==
  \/ CallFake
  \/ FakeReturn
  \/ CallReal
  \/ \E i \in DOMAIN apiResponsePromises : Settle(i)
  \/ AwaitFulfilled
  \/ AwaitRejected
  \/ ConvertDone
  \/ Return
  \/ TopLevel

Spec == Init /\ [][Next]_vars

(* ------------- createJobBatches on its own, any job list --------------- *)

\* createJobBatches(jobs, batchSize) applied to any list of at most MaxJobs
\* jobs, repeated jobs included, and any batch size of BatchSizes.
ApplyCreateJobBatches ==
  /\ pc = "idle"
  /\ \E js \in JobLists :
       /\ jobs' = js
       /\ chunks' = createJobBatches(js, maxJobsPerRequest)
  /\ pc' = "batched"
  /\ UNCHANGED <<dialogVars, fakeDataEnabled, maxJobsPerRequest, reason, requests,
                 apiResponsePromises, idx, caught, response, result,
                 outOfOrder>>

SpecBatch == Init /\ [][ApplyCreateJobBatches]_vars

(* ------------------- the dialog driving the mutation ------------------- *)

mutationVars == <<pc, jobs, reason, chunks, requests, apiResponsePromises, idx,
                  caught, response, result, outOfOrder>>

MaxOwed == 2

\* The promise of mutateAsync has settled and the rest of preemptJobs runs
\* next, before any other event.
ContinuationDue == pc \in {"returned", "rejected"}

\* The state of a selected job changes on the server.
BackendTerminate(j) ==
  /\ j \in SelectedJobIdSet \ backendTerminated
  /\ ~ContinuationDue
  /\ backendTerminated' = backendTerminated \cup {j}
  /\ UNCHANGED <<fakeDataEnabled, maxJobsPerRequest, mutationVars, selectedJobs,
                 fetching, isLoadingJobs, dialogReason, isPreempting,
                 hasAttemptedPreempt, refetchAfterPreempt, waitPending,
                 jobIdsToPreemptResponses, owed>>

\* useGetAllJobsMatchingFilters delivers the jobs as they are now.
FetchDone ==
  /\ fetching
  /\ ~ContinuationDue
  /\ selectedJobs' = FetchedJobs(backendTerminated)
  /\ fetching' = FALSE
  /\ isLoadingJobs' = FALSE
  /\ UNCHANGED <<fakeDataEnabled, maxJobsPerRequest, mutationVars, backendTerminated,
                 dialogReason, isPreempting, hasAttemptedPreempt,
                 refetchAfterPreempt, waitPending, jobIdsToPreemptResponses, owed>>

\* refetch(): a fetch starts; whether the hook reports it as loading is
\* the hook's choice.
StartRefetch ==
  /\ fetching' = TRUE
  /\ isLoadingJobs' \in BOOLEAN

\* Lines 107-110 of the dialog.
handleReasonChange ==
  /\ ~isLoadingJobs
  /\ ~ContinuationDue
  /\ \E r \in Reasons \ {dialogReason} : dialogReason' = r
  /\ hasAttemptedPreempt' = FALSE
  /\ UNCHANGED <<fakeDataEnabled, maxJobsPerRequest, mutationVars, backendTerminated,
                 selectedJobs, fetching, isLoadingJobs, isPreempting,
                 refetchAfterPreempt, waitPending, jobIdsToPreemptResponses, owed>>

\* Lines 118-122 of the dialog.
handleRefetch ==
  /\ RefetchEnabled
  /\ ~ContinuationDue
  /\ jobIdsToPreemptResponses' = NoResponses
  /\ hasAttemptedPreempt' = FALSE
  /\ StartRefetch
  /\ UNCHANGED <<fakeDataEnabled, maxJobsPerRequest, mutationVars, backendTerminated,
                 selectedJobs, dialogReason, isPreempting, refetchAfterPreempt,
                 waitPending, owed>>

\* Lines 112-113, 63-70 of the dialog and 49-81 of the hook: the Preempt
\* button is pressed, isPreempting is set and the mutation is called with
\* the preemptable jobs and the reason.
handlePreemptJobs ==
  /\ PreemptEnabled
  /\ pc = "idle"
  /\ owed < MaxOwed
  /\ isPreempting' = TRUE
  /\ jobs' = AsMutationJobs(PreemptableJobs(selectedJobs))
  /\ reason' = dialogReason
  /\ IF fakeDataEnabled
       THEN /\ pc' = "fake_wait"
            /\ UNCHANGED <<chunks, requests, apiResponsePromises>>
       ELSE LET cs == createJobBatches(jobs', maxJobsPerRequest)
                bl == BatchList(cs)
            IN  /\ chunks' = cs
                /\ requests' = [i \in DOMAIN bl |->
                     RequestBody(bl[i].queue, bl[i].jobSet, bl[i].batch, dialogReason)]
                /\ apiResponsePromises' = [i \in DOMAIN bl |->
                     [jobIds |-> bl[i].batch, state |-> "pending", error |-> ""]]
                /\ pc' = "collect"
  /\ response' = EmptyResponse
  /\ idx' = 1
  /\ UNCHANGED <<fakeDataEnabled, maxJobsPerRequest, caught, result, outOfOrder,
                 backendTerminated, selectedJobs, fetching, isLoadingJobs,
                 dialogReason, hasAttemptedPreempt, refetchAfterPreempt,
                 waitPending, jobIdsToPreemptResponses, owed>>

\* The mutation object is settled and can be called again.
MutationReset ==
  /\ pc' = "idle"
  /\ jobs' = <<>>
  /\ reason' = ""
  /\ chunks' = <<>>
  /\ requests' = <<>>
  /\ apiResponsePromises' = <<>>
  /\ idx' = 1
  /\ caught' = ""
  /\ response' = EmptyResponse
  /\ result' = NoResult
  /\ outOfOrder' = FALSE

\* Lines 72-91 and 113-115 of the dialog, then the effect of lines 95-104:
\* mutateAsync resolved.  The statuses are stored, hasAttemptedPreempt is
\* set, isPreempting is reset, refetchAfterPreempt is set, and the effect
\* starts doRefetch when the flag has changed.
PreemptResolved ==
  /\ isPreempting
  /\ pc = "returned"
  /\ jobIdsToPreemptResponses' =
       NewResponseStatus(jobIdsToPreemptResponses, result.response)
  /\ hasAttemptedPreempt' = TRUE
  /\ isPreempting' = FALSE
  /\ refetchAfterPreempt' = TRUE
  /\ waitPending' = (waitPending \/ ~refetchAfterPreempt)
  /\ owed' = owed + 1
  /\ MutationReset
  /\ UNCHANGED <<fakeDataEnabled, maxJobsPerRequest, backendTerminated, selectedJobs,
                 fetching, isLoadingJobs, dialogReason>>

\* Mutant of PreemptRejected: no finally clause, isPreempting is reset only
\* after a response.
PreemptRejectedNoFinally ==
  /\ isPreempting
  /\ pc = "rejected"
  /\ owed' = owed + 1
  /\ MutationReset
  /\ UNCHANGED <<fakeDataEnabled, maxJobsPerRequest, backendTerminated, selectedJobs,
                 fetching, isLoadingJobs, dialogReason, isPreempting,
                 hasAttemptedPreempt, refetchAfterPreempt, waitPending,
                 jobIdsToPreemptResponses>>

\* Lines 89-91 of the dialog: mutateAsync rejected.  The finally clause
\* resets isPreempting, the rejection leaves preemptJobs and
\* handlePreemptJobs, line 115 is not reached.
PreemptRejected ==
  /\ isPreempting
  /\ pc = "rejected"
  /\ isPreempting' = FALSE
  /\ owed' = owed + 1
  /\ MutationReset
  /\ UNCHANGED <<fakeDataEnabled, maxJobsPerRequest, backendTerminated, selectedJobs,
                 fetching, isLoadingJobs, dialogReason, hasAttemptedPreempt,
                 refetchAfterPreempt, waitPending, jobIdsToPreemptResponses>>

\* Mutant of doRefetch: the delayed refetch goes through handleRefetch and
\* so clears hasAttemptedPreempt and the statuses.
doRefetchAsHandleRefetch ==
  /\ waitPending
  /\ ~ContinuationDue
  /\ StartRefetch
  /\ refetchAfterPreempt' = FALSE
  /\ waitPending' = FALSE
  /\ hasAttemptedPreempt' = FALSE
  /\ jobIdsToPreemptResponses' = NoResponses
  /\ owed' = IF owed > 0 THEN owed - 1 ELSE 0
  /\ UNCHANGED <<fakeDataEnabled, maxJobsPerRequest, mutationVars, backendTerminated,
                 selectedJobs, dialogReason, isPreempting>>

\* Lines 98-100 of the dialog: the wait of 500 ms is over.
doRefetch ==
  /\ waitPending
  /\ ~ContinuationDue
  /\ StartRefetch
  /\ refetchAfterPreempt' = FALSE
  /\ waitPending' = FALSE
  /\ owed' = IF owed > 0 THEN owed - 1 ELSE 0
  /\ UNCHANGED <<fakeDataEnabled, maxJobsPerRequest, mutationVars, backendTerminated,
                 selectedJobs, dialogReason, isPreempting, hasAttemptedPreempt,
                 jobIdsToPreemptResponses>>

DialogInit ==
  /\ fakeDataEnabled \in BOOLEAN
  /\ maxJobsPerRequest = MaxBatchSize
  /\ MutationIdle
  /\ backendTerminated \in SUBSET SelectedJobIdSet
  /\ DialogMounted

DialogNext ==
  \/ \E j \in SelectedJobIdSet : BackendTerminate(j)
  \/ FetchDone
  \/ handleReasonChange
  \/ handleRefetch
  \/ handlePreemptJobs
  \/ FakeReturn
  \/ \E i \in DOMAIN apiResponsePromises : Settle(i)
  \/ AwaitFulfilled
  \/ AwaitRejected
  \/ ConvertDone
  \/ Return
  \/ TopLevel
  \/ PreemptResolved
  \/ PreemptRejected
  \/ doRefetch

SpecDialog == DialogInit /\ [][DialogNext]_vars

\* What runs without the user: the steps of the mutation, the answers of
\* the backend (the transport ends every request), and the rest of
\* preemptJobs once mutateAsync has settled.
MutationProgress ==
  \/ FakeReturn
  \/ \E i \in DOMAIN apiResponsePromises : Settle(i)
  \/ AwaitFulfilled
  \/ AwaitRejected
  \/ ConvertDone
  \/ Return
  \/ TopLevel
  \/ PreemptResolved
  \/ PreemptRejected

SpecDialogFair == SpecDialog /\ WF_vars(MutationProgress)

(* ------------------------------ properties ----------------------------- *)

Ids(js) == [i \in DOMAIN js |-> js[i].jobId]

Count(s, x) == Cardinality({i \in DOMAIN s : s[i] = x})

FailedIds(failedJobIds) == [i \in DOMAIN failedJobIds |-> failedJobIds[i].jobId]

\* The places <<queue, jobSet, batch, position>> of a createJobBatches result.
Cells(cs) ==
  UNION {UNION {UNION {{<<q, s, b, k>> : k \in DOMAIN cs[q].value[s].value[b]} :
                       b \in DOMAIN cs[q].value[s].value} :
                s \in DOMAIN cs[q].value} :
         q \in DOMAIN cs}

CellId(cs, c) == cs[c[1]].value[c[2]].value[c[3]][c[4]]

\* The batches <<queue, jobSet, batch>> of a createJobBatches result.
BatchPlaces(cs) ==
  UNION {UNION {{<<q, s, b>> : b \in DOMAIN cs[q].value[s].value} :
                s \in DOMAIN cs[q].value} :
         q \in DOMAIN cs}

\* Position of the first job of the list that satisfies P.
FirstPos(js, P(_)) == CHOOSE i \in DOMAIN js : P(js[i]) /\ \A k \in 1..(i - 1) : ~P(js[k])

RealDone == ~fakeDataEnabled /\ pc = "returned"

\* C2: createJobBatches loses and duplicates nothing: every job ID occurs in
\* the batches as often as in the input list, and every occurrence lies
\* under the queue and the job-set of its job.
C2_NoLossNoDuplication ==
  pc = "batched" =>
    /\ \A j \in JobIds :
         Cardinality({c \in Cells(chunks) : CellId(chunks, c) = j}) = Count(Ids(jobs), j)
    /\ \A c \in Cells(chunks) :
         /\ chunks[c[1]].key = QueueOf[CellId(chunks, c)]
         /\ chunks[c[1]].value[c[2]].key = JobSetOf[CellId(chunks, c)]

\* A list that names a job twice and spans two groups has been batched.
C2_Witness ==
  /\ pc = "batched"
  /\ Len(jobs) = 3
  /\ ~IsDistinct(jobs)
  /\ Cardinality(BatchPlaces(chunks)) >= 2
  /\ \E a, b \in DOMAIN jobs : jobs[a].queue # jobs[b].queue

\* C3: no batch of the result holds more job IDs than the batch size.
C3_BatchWithinSize ==
  pc = "batched" =>
    \A p \in BatchPlaces(chunks) :
      Len(chunks[p[1]].value[p[2]].value[p[3]]) <= maxJobsPerRequest

\* A group overflowed: its first batch is full and a second one was opened.
C3_Witness ==
  /\ pc = "batched"
  /\ maxJobsPerRequest = 2
  /\ \E q \in DOMAIN chunks : \E s \in DOMAIN chunks[q].value :
       /\ Len(chunks[q].value[s].value) = 2
       /\ Len(chunks[q].value[s].value[1]) = 2

\* C8: createJobBatches keeps the encounter order: the batches of a group,
\* concatenated, are the input job IDs of that group in input order; queues
\* stand in the order of their first job, and so do the job-sets of a queue.
C8_EncounterOrder ==
  pc = "batched" =>
    /\ \A q \in DOMAIN chunks : \A s \in DOMAIN chunks[q].value :
         LET InGroup(job) == /\ job.queue = chunks[q].key
                             /\ job.jobSet = chunks[q].value[s].key
         IN  Concat(chunks[q].value[s].value) = Ids(SelectSeq(jobs, InGroup))
    /\ \A q1, q2 \in DOMAIN chunks :
         q1 < q2 =>
           LET In1(job) == job.queue = chunks[q1].key
               In2(job) == job.queue = chunks[q2].key
           IN  /\ \E i \in DOMAIN jobs : In1(jobs[i])
               /\ \E i \in DOMAIN jobs : In2(jobs[i])
               /\ FirstPos(jobs, In1) < FirstPos(jobs, In2)
    /\ \A q \in DOMAIN chunks : \A s1, s2 \in DOMAIN chunks[q].value :
         s1 < s2 =>
           LET In1(job) == /\ job.queue = chunks[q].key
                           /\ job.jobSet = chunks[q].value[s1].key
               In2(job) == /\ job.queue = chunks[q].key
                           /\ job.jobSet = chunks[q].value[s2].key
           IN  /\ \E i \in DOMAIN jobs : In1(jobs[i])
               /\ \E i \in DOMAIN jobs : In2(jobs[i])
               /\ FirstPos(jobs, In1) < FirstPos(jobs, In2)

\* The jobs of one group are split by a job of another queue.
C8_Witness ==
  /\ pc = "batched"
  /\ Len(jobs) = 3
  /\ jobs[1].queue = jobs[3].queue /\ jobs[1].jobSet = jobs[3].jobSet
  /\ jobs[2].queue # jobs[1].queue
  /\ Len(chunks) = 2
  /\ Len(chunks[1].value[1].value) >= 1

(* ----------------------- properties of mutationFn ---------------------- *)

InInput(j) == \E n \in DOMAIN jobs : jobs[n].jobId = j

Successful == result.response.successfulJobIds

Failed == result.response.failedJobIds

Fulfilled(i) == apiResponsePromises[i].state = "fulfilled"

Rejected(i) == apiResponsePromises[i].state = "rejected"

\* The batch at place p of chunks, and the request that carries it.
BatchAt(p) == chunks[p[1]].value[p[2]].value[p[3]]

Carries(i, p) ==
  /\ requests[i].jobIds = BatchAt(p)
  /\ requests[i].queue = chunks[p[1]].key
  /\ requests[i].jobSetId = chunks[p[1]].value[p[2]].key

RequestOf(p) == CHOOSE i \in DOMAIN requests : Carries(i, p)

InSeq(s, x) == \E i \in DOMAIN s : s[i] = x

\* C1: when the mutation (not in fake mode) returns a response for jobs
\* with pairwise distinct IDs, every submitted ID is exactly once in
\* successfulJobIds and failedJobIds taken together, and no other ID is in
\* either list.
C1_ResponsePartitionsInput ==
  (RealDone /\ IsDistinct(Ids(jobs))) =>
    \A j \in JobIds :
      Count(Successful \o FailedIds(Failed), j) = IF InInput(j) THEN 1 ELSE 0

\* A response with successful and failed jobs for a list of three jobs.
C1_Witness ==
  /\ RealDone
  /\ Len(jobs) = 3
  /\ Successful # <<>>
  /\ Failed # <<>>

C6_OneRequestPerBatch ==
  (~fakeDataEnabled /\ pc # "idle") =>
    /\ chunks = createJobBatches(jobs, maxJobsPerRequest)
    /\ Len(requests) = Cardinality(BatchPlaces(chunks))
    /\ \A p \in BatchPlaces(chunks) :
         Cardinality({i \in DOMAIN requests : Carries(i, p)}) = 1
    /\ \A i \in DOMAIN requests :
         /\ requests[i].reason = reason
         /\ \A k \in DOMAIN requests[i].jobIds :
              \E n \in DOMAIN jobs :
                /\ jobs[n].jobId = requests[i].jobIds[k]
                /\ jobs[n].queue = requests[i].queue
                /\ jobs[n].jobSet = requests[i].jobSetId

\* The mutation is over after a failed request; a group was cut into two
\* batches and a reason was given.
C6_Witness ==
  /\ pc \in {"returned", "rejected"}
  /\ ~fakeDataEnabled
  /\ reason # ""
  /\ Len(requests) = 2
  /\ requests[1].queue = requests[2].queue
  /\ requests[1].jobSetId = requests[2].jobSetId
  /\ Len(requests[1].jobIds) = 2
  /\ \E i \in DOMAIN apiResponsePromises : Rejected(i)

\* C7: the returned response is a function of the batches in issue order
\* and of their outcomes alone, whatever the order of the completions:
\* successfulJobIds is the concatenation of the succeeded batches and
\* failedJobIds that of the failed ones, each batch once.
C7_CompletionOrderIrrelevant ==
  RealDone =>
    /\ Successful =
         Concat([i \in DOMAIN requests |->
                  IF Fulfilled(i) THEN requests[i].jobIds ELSE <<>>])
    /\ Failed =
         Concat([i \in DOMAIN requests |->
                  IF Rejected(i)
                    THEN [k \in DOMAIN requests[i].jobIds |->
                           [jobId |-> requests[i].jobIds[k],
                            errorReason |-> getErrorMessage(apiResponsePromises[i].error)]]
                    ELSE <<>>])

\* A response was returned although a later request completed before an
\* earlier one, with both outcomes present.
C7_Witness ==
  /\ RealDone
  /\ outOfOrder
  /\ Len(requests) = 3
  /\ Successful # <<>>
  /\ Failed # <<>>

\* C9: an error that leaves the per-batch handling rejects the mutation
\* with the message of that error and without a response; a response is
\* returned only when no error left the per-batch handling.
C9_EscapedErrorRejects ==
  ~fakeDataEnabled =>
    /\ pc = "toplevel" => result = NoResult
    /\ pc = "rejected" =>
         /\ result.kind = "error"
         /\ result.error = getErrorMessage(caught)
         /\ result.response = EmptyResponse
    /\ result.kind = "response" =>
         /\ pc = "returned"
         /\ \A i \in DOMAIN apiResponsePromises :
              ~(Rejected(i) /\ getErrorMessageFails(apiResponsePromises[i].error))
    /\ result.kind = "error" => pc = "rejected"

\* The conversion of the second batch's error failed after the first batch
\* was collected, and the mutation was rejected.
C9_Witness ==
  /\ pc = "rejected"
  /\ idx = 2
  /\ result.kind = "error"
  /\ response.successfulJobIds # <<>>

\* C10: when every request succeeded, the returned response lists every
\* input job ID exactly once as successful, no other ID, and no failed job.
C10_AllSuccess ==
  (RealDone /\ \A i \in DOMAIN apiResponsePromises : Fulfilled(i)) =>
    /\ Failed = <<>>
    /\ \A j \in JobIds : Count(Successful, j) = IF InInput(j) THEN 1 ELSE 0

\* Three jobs in at least two batches, all requests succeeded.
C10_Witness ==
  /\ RealDone
  /\ Len(jobs) = 3
  /\ Len(apiResponsePromises) >= 2
  /\ \A i \in DOMAIN apiResponsePromises : Fulfilled(i)

\* C11: an empty job list gives no group and no batch, the mutation issues
\* no request for it, raises no error and returns a response with both
\* lists empty.
C11_EmptyInput ==
  (~fakeDataEnabled /\ pc # "idle" /\ jobs = <<>>) =>
    /\ createJobBatches(jobs, maxJobsPerRequest) = <<>>
    /\ chunks = <<>>
    /\ BatchPlaces(chunks) = {}
    /\ requests = <<>>
    /\ apiResponsePromises = <<>>
    /\ pc \in {"collect", "returned"}
    /\ pc = "returned" =>
         result = [kind |-> "response", response |-> EmptyResponse, error |-> ""]

\* The mutation returned for the empty list.
C11_Witness ==
  /\ ~fakeDataEnabled
  /\ pc = "returned"
  /\ jobs = <<>>
  /\ result.kind = "response"

\* C14: in every group no batch is empty, every batch but the last holds
\* exactly batchSize job IDs, and a group of n jobs has ceil(n / batchSize)
\* batches.
C14_GreedyFill ==
  pc = "batched" =>
    \A q \in DOMAIN chunks : \A s \in DOMAIN chunks[q].value :
      LET batches == chunks[q].value[s].value
          InGroup(job) == /\ job.queue = chunks[q].key
                          /\ job.jobSet = chunks[q].value[s].key
          n == Len(SelectSeq(jobs, InGroup))
      IN  /\ \A b \in DOMAIN batches : Len(batches[b]) >= 1
          /\ \A b \in DOMAIN batches :
               b < Len(batches) => Len(batches[b]) = maxJobsPerRequest
          /\ Len(batches) =
               (n + maxJobsPerRequest - 1) \div maxJobsPerRequest

\* Three jobs of one group at batch size 2: a full batch and a last batch
\* of one.
C14_Witness ==
  /\ pc = "batched"
  /\ maxJobsPerRequest = 2
  /\ Len(jobs) = 3
  /\ Len(chunks) = 1
  /\ Len(chunks[1].value) = 1
  /\ Len(chunks[1].value[1].value) = 2
  /\ Len(chunks[1].value[1].value[2]) = 1

\* C15: the step that starts the mutation issues the request of every
\* batch, all of them still in flight when the loop first waits, and no
\* later step (no outcome of a request) issues or withholds a request.
C15_FireThenCollect ==
  [][/\ (~fakeDataEnabled /\ pc = "idle" /\ pc' # "idle") =>
          /\ pc' = "collect"
          /\ idx' = 1
          /\ Len(requests') = Cardinality(BatchPlaces(chunks'))
          /\ Len(apiResponsePromises') = Len(requests')
          /\ \A i \in DOMAIN apiResponsePromises' :
               apiResponsePromises'[i].state = "pending"
     /\ pc # "idle" =>
          /\ requests' = requests
          /\ Len(apiResponsePromises') = Len(apiResponsePromises)]_vars

\* As many requests in flight as there are batches, three of them, while
\* the loop waits for the first.
C15_Witness ==
  /\ ~fakeDataEnabled
  /\ pc = "collect"
  /\ idx = 1
  /\ Len(requests) = 3
  /\ Cardinality(BatchPlaces(chunks)) = 3
  /\ \A i \in DOMAIN apiResponsePromises : apiResponsePromises[i].state = "pending"

\* C18: with fake data enabled no request is issued for any input, and the
\* response returned lists the input job IDs in input order as successful
\* and no failed job.
C18_FakeData ==
  fakeDataEnabled =>
    /\ requests = <<>>
    /\ apiResponsePromises = <<>>
    /\ pc \in {"idle", "fake_wait", "returned"}
    /\ pc = "returned" =>
         result = [kind |-> "response",
                   response |-> [successfulJobIds |-> Ids(jobs), failedJobIds |-> <<>>],
                   error |-> ""]

\* A fake run returned for three jobs of two queues.
C18_Witness ==
  /\ fakeDataEnabled
  /\ pc = "returned"
  /\ Len(jobs) = 3
  /\ jobs[1].queue # jobs[2].queue
  /\ Len(result.response.successfulJobIds) = 3

(* ------------------------ properties of the dialog --------------------- *)

FetchedNonTerminated(j) ==
  \E k \in DOMAIN selectedJobs :
    selectedJobs[k].jobId = j /\ ~isTerminatedJobState(selectedJobs[k].state)

\* The step that calls the mutation, and the steps that take its outcome.
CallStep == pc = "idle" /\ pc' # "idle"

ResponseStep == pc = "returned" /\ pc' = "idle"

RejectionStep == pc = "rejected" /\ pc' = "idle"

\* C12: in every call of the mutation the submitted jobs are exactly the
\* jobs that are not terminated in the job data fetched last.
C12_SubmitsFetchedNonTerminated ==
  [][CallStep =>
       /\ \A i \in DOMAIN jobs' : FetchedNonTerminated(jobs'[i].jobId)
       /\ \A j \in SelectedJobIdSet :
            FetchedNonTerminated(j) => \E i \in DOMAIN jobs' : jobs'[i].jobId = j]_vars

\* A call is in flight for one job, the other fetched job being terminated.
C12_Witness ==
  /\ isPreempting
  /\ pc \in {"collect", "fake_wait"}
  /\ Len(jobs) = 1
  /\ Len(selectedJobs) = 2
  /\ \E k \in DOMAIN selectedJobs : isTerminatedJobState(selectedJobs[k].state)

\* C13 as claimed, in the states where nothing is pending (no preemption
\* in flight, refetchAfterPreempt false, no delayed refetch waiting): every
\* finished preemption has had its one automatic refetch.
C13_OneRefetchPerPreemption ==
  (~isPreempting /\ ~refetchAfterPreempt /\ ~waitPending) => owed = 0

\* C16: isPreempting is true exactly from the call of the mutation until
\* its outcome, response or rejection, is taken; and a dialog that is
\* preempting gets out of that state.
C16_PreemptingWhileInFlight ==
  /\ [](isPreempting <=> pc # "idle")
  /\ [][(ResponseStep \/ RejectionStep) => ~isPreempting']_vars
  /\ isPreempting ~> ~isPreempting

\* A rejected mutation has left the dialog out of the preempting state.
C16_Witness ==
  /\ ~isPreempting
  /\ pc = "idle"
  /\ owed = 1
  /\ ~hasAttemptedPreempt
  /\ ~refetchAfterPreempt
  /\ ~fakeDataEnabled

\* C17: a response sets hasAttemptedPreempt, which only an edit of the
\* reason or a press on Refetch jobs clears; the mutation is called only
\* when it is clear; a rejection leaves it clear.
C17_DisabledUntilUserActs ==
  [][/\ ResponseStep => hasAttemptedPreempt'
     /\ RejectionStep => ~hasAttemptedPreempt /\ ~hasAttemptedPreempt'
     /\ (hasAttemptedPreempt /\ ~hasAttemptedPreempt') =>
          (handleReasonChange \/ handleRefetch)
     /\ CallStep => ~hasAttemptedPreempt /\ PreemptEnabled]_vars

\* After a response and after the automatic refetch has delivered jobs
\* that can still be preempted, the Preempt button is still disabled.
C17_Witness ==
  /\ hasAttemptedPreempt
  /\ pc = "idle"
  /\ owed = 0
  /\ ~refetchAfterPreempt
  /\ ~fetching
  /\ ~isLoadingJobs
  /\ Len(PreemptableJobs(selectedJobs)) = 2
  /\ ~PreemptEnabled

====
